---------------------------- MODULE Spec2Model ----------------------------
(***************************************************************************)
(* OcTreeBase (src/src/octomap/OcTreeBase.hxx): the coordinate/key codec   *)
(* (genKey, genVal), octant addressing (genPos), point lookup (search),    *)
(* the ray walk (computeRay) and the tree enumerations (getLeafNodes,      *)
(* getVoxels).                                                             *)
(*                                                                         *)
(* Metric values.  A metric value (a C++ double) is modelled exactly, as   *)
(* an integer number of units, one unit being resolution / Q: the value   *)
(* n stands for n * resolution / Q.  Then resolution_factor * n is n / Q,  *)
(* a voxel is Q units wide and the centre of a voxel lies HalfCell units   *)
(* above its lower border.  Arithmetic is that of the real numbers:        *)
(* floating-point rounding is not modelled.                                *)
(*                                                                         *)
(* Three specifications, one per group of operations:                      *)
(*   SpecCodec  calls of genVal and genKey, and genKey on genVal's value;  *)
(*   SpecRay    one call of computeRay, an action per loop iteration;      *)
(*   SpecTree   one call of search, getVoxels or getLeafNodes on a tree    *)
(*              whose root exists (the three dereference or assert it).    *)
(***************************************************************************)
EXTENDS Integers, Sequences, FiniteSets

\* Half a voxel in units: how finely metric inputs are sampled.
HalfCell == 2
\* Units per voxel edge (the metric value of `resolution`).
Q == 2 * HalfCell

\* OcTreeBase constructor: tree_depth(16), tree_max_val(32768).
tree_depth == 16
tree_max_val == 32768

\* The number of values of an unsigned short int (key, voxelIdx, endIdx).
USHORT == 2 ^ tree_depth

None == "none"

\* selAxis before the first iteration of the loop
NoAxis == 0 - 1

Abs(x) == IF x < 0 THEN -x ELSE x

VARIABLES
  \* ---- codec calls
  cpc,        \* "start" | "decoded" | "encoded" | "roundtrip"
  key,        \* genVal's argument (unsigned short)
  val,        \* the metric value decoded, or given to genKey
  okVal,      \* genVal's return value
  keyOut,     \* genKey's out-parameter
  okKey,      \* genKey's return value
  \* ---- the tree object
  resolution, \* metric edge of the finest voxel (setResolution)
  \* ---- one computeRay call
  pc,         \* "call" | "loop" | "done" ("off": no call in this run)
  origin,     \* argument, a metric point
  end,        \* argument, a metric point
  voxelIdx,   \* unsigned short voxelIdx[3]
  endIdx,     \* unsigned short endIdx[3]
  step,       \* int step[3]
  tMax,       \* double tMax[3]
  tDelta,     \* double tDelta[3]
  ray,        \* the out-parameter _ray
  ret,        \* the value returned
  selAxis,    \* the loop's local i: the axis the last iteration advanced
  tMaxAt,     \* tMax as the last iteration found it
  advanced,   \* voxelIdx[i] + step[i] of the last iteration, as an int
  rayIdx,     \* voxelIdx at each push_back, in order
  \* ---- the node structure and one call of search or of an enumeration
  tree,       \* the nodes under itsRoot: each node is the sequence of octants
              \* that leads to it from the root (the root is << >>)
  tpc,        \* "start" | "searched" | "voxels" | "leaves"
  value,      \* search's argument, a metric point
  found,      \* search's return value: a node, or NULL
  max_depth,  \* the enumeration's argument
  voxels,     \* getVoxels' out-parameter
  nodes       \* getLeafNodes' out-parameter

codecVars == <<cpc, key, val, okVal, keyOut, okKey>>

rayVars == <<pc, origin, end, voxelIdx, endIdx, step, tMax, tDelta, ray, ret,
             selAxis, tMaxAt, advanced, rayIdx>>

treeVars == <<tree, tpc, value, found, max_depth, voxels, nodes>>

vars == <<cpc, key, val, okVal, keyOut, okKey, resolution,
          pc, origin, end, voxelIdx, endIdx, step, tMax, tDelta, ray, ret,
          selAxis, tMaxAt, advanced, rayIdx,
          tree, tpc, value, found, max_depth, voxels, nodes>>


Axes == 0 .. 2

\* The resolutions a tree is constructed with.  At 250000 the walk's
\* sentinel 1e6 is four voxels long.
Resolutions == {1, 250000}

\* No call of the group is part of this run.
RayOff ==
  /\ pc = "off"
  /\ origin = None /\ end = None
  /\ voxelIdx = None /\ endIdx = None /\ step = None
  /\ tMax = None /\ tDelta = None
  /\ ray = << >> /\ ret = None
  /\ selAxis = NoAxis /\ tMaxAt = None /\ advanced = None /\ rayIdx = << >>

TreeOff ==
  /\ tpc = "off"
  /\ tree = {<< >>}
  /\ value = None /\ found = None /\ max_depth = None
  /\ voxels = << >> /\ nodes = << >>

CodecOff ==
  /\ cpc = "off"
  /\ key = None /\ val = None /\ okVal = None
  /\ keyOut = None /\ okKey = None

----------------------------------------------------------------------------
(* Coordinate / key codec *)

\* floor(resolution_factor * v) for a metric value v in units
FloorScaled(v) == v \div Q

genKeyLowerInclusive(v) ==
  LET scaled_val == FloorScaled(v) + tree_max_val
  IN  IF scaled_val >= 0 /\ scaled_val < 2 * tree_max_val
      THEN [ok |-> TRUE, key |-> scaled_val % USHORT]
      ELSE [ok |-> FALSE, key |-> None]

\* genKey: [ok, key]; key is left untouched (None) on failure
genKey(v) ==
  LET scaled_val == FloorScaled(v) + tree_max_val
  IN  IF scaled_val > 0 /\ scaled_val < 2 * tree_max_val
      THEN [ok |-> TRUE, key |-> scaled_val % USHORT]
      ELSE [ok |-> FALSE, key |-> None]

genValUpperBorder(k) ==
  IF k >= 2 * tree_max_val
  THEN [ok |-> FALSE, val |-> 0]
  ELSE [ok |-> TRUE, val |-> (k - tree_max_val) * Q + Q]

\* genVal: [ok, val]; val = ((key - tree_max_val) + 0.5) * resolution
genVal(k) ==
  IF k >= 2 * tree_max_val
  THEN [ok |-> FALSE, val |-> 0]
  ELSE [ok |-> TRUE, val |-> (k - tree_max_val) * Q + HalfCell]

\* How far beyond a sampled coordinate the metric inputs reach, in voxels.
Margin == 3

\* Metric inputs of genKey: around both ends of the key space and its centre.
CoordSamples ==
  UNION { ((a - Margin) * Q) .. ((a + Margin) * Q) :
            a \in {-tree_max_val, 0, tree_max_val} }

InitCodec ==
  /\ cpc = "start"
  /\ key = None /\ val = None /\ okVal = None
  /\ keyOut = None /\ okKey = None
  /\ resolution \in Resolutions
  /\ RayOff
  /\ TreeOff

\* a call genVal(k, val) on any unsigned short
CallGenVal ==
  /\ cpc = "start"
  /\ \E k \in 0 .. (USHORT - 1) :
       /\ key' = k
       /\ val' = genVal(k).val
       /\ okVal' = genVal(k).ok
  /\ cpc' = "decoded"
  /\ UNCHANGED <<keyOut, okKey, resolution>>
  /\ UNCHANGED rayVars
  /\ UNCHANGED treeVars

\* a call genKey(v, key) on a sampled metric value
CallGenKey ==
  /\ cpc = "start"
  /\ \E v \in CoordSamples :
       /\ val' = v
       /\ keyOut' = genKey(v).key
       /\ okKey' = genKey(v).ok
  /\ cpc' = "encoded"
  /\ UNCHANGED <<key, okVal, resolution>>
  /\ UNCHANGED rayVars
  /\ UNCHANGED treeVars

\* genKey applied to the value genVal produced
ReEncode ==
  /\ cpc = "decoded"
  /\ okVal = TRUE
  /\ keyOut' = genKey(val).key
  /\ okKey' = genKey(val).ok
  /\ cpc' = "roundtrip"
  /\ UNCHANGED <<key, val, okVal, resolution>>
  /\ UNCHANGED rayVars
  /\ UNCHANGED treeVars

NextCodec == CallGenVal \/ CallGenKey \/ ReEncode

SpecCodec == InitCodec /\ [][NextCodec]_vars


----------------------------------------------------------------------------
(* computeRay *)

\* The literal 1e6 of tMax/tDelta for a zero direction component, in units.
Sentinel(res) == (1000000 * Q) \div res

(***************************************************************************)
(* A parametric distance (tMax, tDelta) is a record [abs, num, den]:       *)
(*   abs = TRUE : the real number num (in units);                          *)
(*   abs = FALSE: the real number maxLength * num / den, den > 0, num >= 0 *)
(* where maxLength = sqrt(L2) is |end - origin|: a value divided by        *)
(* direction(i) = (end(i) - origin(i)) / maxLength.                        *)
(***************************************************************************)
TAbs(n) == [abs |-> TRUE, num |-> n, den |-> 1]
TRel(n, d) == [abs |-> FALSE, num |-> n, den |-> d]

\* a + b of two values of the same kind (tMax[i] += tDelta[i])
TAdd(a, b) ==
  IF a.abs THEN TAbs(a.num + b.num)
  ELSE IF a.den = b.den THEN TRel(a.num + b.num, a.den)
  ELSE TRel(a.num * b.den + b.num * a.den, a.den * b.den)

\* sqrt(L2) * x < y for integers x >= 0 and y, without leaving 32 bits
SqrtLess(L2, x, y) ==
  IF y <= 0 THEN FALSE
  ELSE IF y > 46340 THEN L2 * x * x >= 0
  ELSE L2 * x * x < y * y

\* y < sqrt(L2) * x for integers x >= 0 and y, without leaving 32 bits
LessSqrt(L2, y, x) ==
  IF y < 0 THEN TRUE
  ELSE IF y > 46340 THEN L2 * x * x < 0
  ELSE y * y < L2 * x * x

\* a < b on two parametric distances of a ray with maxLength^2 = L2
TLess(a, b, L2) ==
  IF a.abs /\ b.abs THEN a.num < b.num
  ELSE IF ~a.abs /\ ~b.abs THEN a.num * b.den < b.num * a.den
  ELSE IF ~a.abs THEN SqrtLess(L2, a.num, b.num * a.den)
  ELSE LessSqrt(L2, a.num * b.den, b.num)

Sq(x) == x * x

\* maxLength^2 = |end - origin|^2
MaxLength2(o, e) == Sq(e[0] - o[0]) + Sq(e[1] - o[1]) + Sq(e[2] - o[2])

\* (value - origin).norm2() > maxLength.  A component beyond 26000 units is
\* longer than every maxLength of the rays of InitRay (squares stay in 32 bits).
PastEnd(pt, o, L2) ==
  IF \E j \in Axes : Abs(pt[j] - o[j]) > 26000 THEN TRUE
  ELSE Sq(pt[0] - o[0]) + Sq(pt[1] - o[1]) + Sq(pt[2] - o[2]) > L2

Sgn(x) == IF x > 0 THEN 1 ELSE IF x < 0 THEN -1 ELSE 0

FindMinTMaxLowestFirst(t, L2) ==
  IF ~TLess(t[1], t[0], L2)
  THEN (IF ~TLess(t[2], t[0], L2) THEN 0 ELSE 2)
  ELSE (IF ~TLess(t[2], t[1], L2) THEN 1 ELSE 2)

\* find minimum tMax: the axis i the iteration advances
FindMinTMax(t, L2) ==
  IF TLess(t[0], t[1], L2)
  THEN (IF TLess(t[0], t[2], L2) THEN 0 ELSE 2)
  ELSE (IF TLess(t[1], t[2], L2) THEN 1 ELSE 2)

\* How many voxels an end point lies from the origin's voxel.
MaxReach == 2

\* The voxels the origin's coordinates are sampled in: at both ends of the
\* key space and at its centre (axis 0), at its centre (axes 1 and 2).
AnchorKeys == {1, tree_max_val, 2 * tree_max_val - 2}

OriginOffsets == {0, HalfCell}
EndOffsets == {0, HalfCell, HalfCell + 1}

EndCells(j) ==
  IF j = 0 THEN (0 - 1) .. (MaxReach + 1)
  ELSE IF j = 1 THEN (0 - MaxReach) .. MaxReach
  ELSE (0 - 1) .. 1

\* origin and end of the call: origin on the border or in the centre of its
\* voxel on each axis; end up to MaxReach voxels away, on the border, in the
\* centre or a unit past the centre of its voxel (axes 0 and 1), or a whole
\* number of voxels from origin (axis 2).
InitRay ==
  /\ CodecOff
  /\ TreeOff
  /\ resolution \in Resolutions
  /\ pc = "call"
  /\ \E a \in AnchorKeys, oo \in [Axes -> OriginOffsets],
        c \in [Axes -> (0 - MaxReach - 1) .. (MaxReach + 1)],
        eo \in [Axes -> EndOffsets] :
       LET anchor == [j \in Axes |-> IF j = 0 THEN a ELSE tree_max_val]
       IN  /\ \A j \in Axes : c[j] \in EndCells(j)
           /\ eo[2] = 0
           /\ origin = [j \in Axes |-> (anchor[j] - tree_max_val) * Q + oo[j]]
           /\ end = [j \in Axes |->
                       (anchor[j] - tree_max_val + c[j]) * Q
                         + (IF j = 2 THEN oo[j] ELSE eo[j])]
  /\ voxelIdx = None /\ endIdx = None /\ step = None
  /\ tMax = None /\ tDelta = None
  /\ ray = << >> /\ ret = None
  /\ selAxis = NoAxis /\ tMaxAt = None /\ advanced = None /\ rayIdx = << >>

\* The initialization phase of computeRay, to the loop's entry or a return.
ComputeRay ==
  /\ pc = "call"
  /\ LET ko == [j \in Axes |-> genKey(origin[j])]
         ke == [j \in Axes |-> genKey(end[j])]
         \* the sign of direction(j) = (end - origin)(j) / maxLength; for
         \* origin = end the call returns below before direction is used
         st == [j \in Axes |-> Sgn(end[j] - origin[j])]
         border == [j \in Axes |->
                      (ko[j].key - tree_max_val) * Q
                        + (IF st[j] > 0 THEN Q ELSE 0)]
         tm == [j \in Axes |->
                  IF st[j] # 0
                  THEN TRel((border[j] - origin[j]) * st[j],
                            Abs(end[j] - origin[j]))
                  ELSE TAbs(Sentinel(resolution))]
         td == [j \in Axes |->
                  IF st[j] # 0
                  THEN TRel(Q, Abs(end[j] - origin[j]))
                  ELSE TAbs(Sentinel(resolution))]
     IN  /\ ray' = << >>
         /\ rayIdx' = << >>
         /\ IF \E j \in Axes : ~ko[j].ok \/ ~ke[j].ok
            THEN \* a coordinate of origin or end is out of bounds
                 /\ pc' = "done" /\ ret' = FALSE
                 /\ UNCHANGED <<voxelIdx, endIdx, step, tMax, tDelta>>
            ELSE /\ voxelIdx' = [j \in Axes |-> ko[j].key]
                 /\ endIdx' = [j \in Axes |-> ke[j].key]
                 /\ step' = st
                 /\ tMax' = tm
                 /\ tDelta' = td
                 /\ IF \A j \in Axes : ko[j].key = ke[j].key
                    THEN pc' = "done" /\ ret' = TRUE
                    ELSE pc' = "loop" /\ ret' = None
  /\ UNCHANGED <<selAxis, tMaxAt, advanced>>
  /\ UNCHANGED <<resolution, origin, end>>
  /\ UNCHANGED codecVars
  /\ UNCHANGED treeVars

\* One iteration of the incremental phase.
RayStep ==
  /\ pc = "loop"
  /\ LET L2 == MaxLength2(origin, end)
         i == FindMinTMax(tMax, L2)
         \* voxelIdx[i] += step[i]: int arithmetic, stored in 16 bits
         sum == voxelIdx[i] + step[i]
         idx == [voxelIdx EXCEPT ![i] = sum % USHORT]
         v == [j \in Axes |-> genVal(idx[j])]
         \* point3d value(val[0], val[1], val[2])
         point == [j \in Axes |-> v[j].val]
     IN  /\ selAxis' = i
         /\ tMaxAt' = tMax
         /\ advanced' = sum
         /\ voxelIdx' = idx
         /\ IF idx[i] >= 0 /\ idx[i] < 2 * tree_max_val
            THEN /\ tMax' = [tMax EXCEPT ![i] = TAdd(tMax[i], tDelta[i])]
                 /\ IF \E j \in Axes : ~v[j].ok
                    THEN \* genVal failed
                         /\ pc' = "done" /\ ret' = FALSE
                         /\ UNCHANGED <<ray, rayIdx>>
                    ELSE IF PastEnd(point, origin, L2)
                    THEN \* reached endpoint
                         /\ pc' = "done" /\ ret' = TRUE
                         /\ UNCHANGED <<ray, rayIdx>>
                    ELSE /\ ray' = Append(ray, point)
                         /\ rayIdx' = Append(rayIdx, idx)
                         /\ UNCHANGED <<pc, ret>>
            ELSE \* the ray hit the boundary
                 /\ pc' = "done" /\ ret' = FALSE
                 /\ UNCHANGED <<tMax, ray, rayIdx>>
  /\ UNCHANGED <<resolution, origin, end, endIdx, step, tDelta>>
  /\ UNCHANGED codecVars
  /\ UNCHANGED treeVars

NextRay == ComputeRay \/ RayStep

SpecRay == InitRay /\ [][NextRay]_vars


----------------------------------------------------------------------------
(* Octant addressing, search, getLeafNodes, getVoxels *)

Octants == 0 .. 7

\* key & (1 << i), as 0 or 1
Bit(k, i) == (k \div (2 ^ i)) % 2

\* genPos: the octant of the keys k at level i
genPos(k, i) == Bit(k[0], i) + 2 * Bit(k[1], i) + 4 * Bit(k[2], i)

\* The NODE capabilities, on the node n of the tree t.
childExists(t, n, pos) == Append(n, pos) \in t
hasChildren(t, n) == \E pos \in Octants : childExists(t, n, pos)
getChild(n, pos) == Append(n, pos)

\* The null pointer (an octant is at most 7; no node is this sequence).
NULL == << 8 >>

RECURSIVE searchLoopLenient(_, _, _, _)
searchLoopLenient(t, k, curNode, i) ==
  IF i < 0 THEN curNode
  ELSE LET pos == genPos(k, i)
       IN  IF childExists(t, curNode, pos)
           THEN searchLoopLenient(t, k, getChild(curNode, pos), i - 1)
           ELSE curNode

\* search's loop "follow nodes down to last level", from level i at curNode
RECURSIVE searchLoop(_, _, _, _)
searchLoop(t, k, curNode, i) ==
  IF i < 0 THEN curNode
  ELSE LET pos == genPos(k, i)
       IN  IF childExists(t, curNode, pos)
           THEN searchLoop(t, k, getChild(curNode, pos), i - 1)
           ELSE IF ~hasChildren(t, curNode) THEN curNode
           ELSE NULL

\* search(value) on the tree t (itsRoot is the node << >>)
search(t, p) ==
  LET k == [j \in Axes |-> genKey(p[j])]
  IN  IF \E j \in Axes : ~k[j].ok THEN NULL
      ELSE searchLoop(t, [j \in Axes |-> k[j].key], << >>, tree_depth - 1)

\* tree_center(0..2), set by setResolution: tree_max_val / resolution_factor
tree_center == [j \in Axes |-> tree_max_val * Q]

\* the child's centre: parent_center +/- center_offset by the bits of i
SearchCenter(parent_center, center_offset, i) ==
  [j \in Axes |->
     IF Bit(i, j) = 1 THEN parent_center[j] + center_offset
                      ELSE parent_center[j] - center_offset]

\* tree_center(0) / pow(2., depth + 1)
CenterOffset(depth) == tree_center[0] \div (2 ^ (depth + 1))

\* One volume: (parent_center - tree_center, resolution * 2^(tree_depth -
\* depth)).  The field `at` is not part of the pair the code makes: it names
\* the node the recursion was at when it made the pair.
Volume(node, depth, parent_center) ==
  [center |-> [j \in Axes |-> parent_center[j] - tree_center[j]],
   size |-> Q * (2 ^ (tree_depth - depth)),
   at |-> node]

\* for (unsigned int i = 0; i < 8; i++): the records of the octants in order
ForOctants(part) ==
  part[0] \o part[1] \o part[2] \o part[3] \o part[4] \o part[5] \o part[6] \o part[7]

RECURSIVE getLeafNodesRecurs(_, _, _, _, _)
getLeafNodesRecurs(t, md, node, depth, parent_center) ==
  IF depth <= md
  THEN IF hasChildren(t, node) /\ depth # md
       THEN LET part == [i \in Octants |->
                  IF childExists(t, node, i)
                  THEN getLeafNodesRecurs(t, md, getChild(node, i), depth + 1,
                         SearchCenter(parent_center, CenterOffset(depth), i))
                  ELSE << >> ]
            IN  ForOctants(part)
       ELSE \* node is a leaf node or max depth reached
            << Volume(node, depth, parent_center) >>
  ELSE << >>

\* getLeafNodes(nodes, max_depth); tree_size is the number of nodes
getLeafNodes(t, md) ==
  IF Cardinality(t) <= 1 THEN << >>
  ELSE getLeafNodesRecurs(t, IF md = 0 THEN tree_depth ELSE md,
                          << >>, 0, tree_center)

RECURSIVE getVoxelsRecursNoCutoff(_, _, _, _, _)
getVoxelsRecursNoCutoff(t, md, node, depth, parent_center) ==
  IF depth <= md
  THEN IF hasChildren(t, node)
       THEN LET part == [i \in Octants |->
                  IF childExists(t, node, i)
                  THEN getVoxelsRecursNoCutoff(t, md, getChild(node, i), depth + 1,
                         SearchCenter(parent_center, CenterOffset(depth), i))
                  ELSE << Volume(node, depth, parent_center) >> ]
            IN  ForOctants(part)
       ELSE << >>
  ELSE << >>

RECURSIVE getVoxelsRecurs(_, _, _, _, _)
getVoxelsRecurs(t, md, node, depth, parent_center) ==
  IF depth <= md
  THEN IF hasChildren(t, node) /\ depth # md
       THEN LET part == [i \in Octants |->
                  IF childExists(t, node, i)
                  THEN getVoxelsRecurs(t, md, getChild(node, i), depth + 1,
                         SearchCenter(parent_center, CenterOffset(depth), i))
                  ELSE << Volume(node, depth, parent_center) >> ]
            IN  ForOctants(part)
       ELSE << >>   \* lowest level (= OcTree cells) is not drawn
  ELSE << >>

\* getVoxels(voxels, max_depth)
getVoxels(t, md) ==
  getVoxelsRecurs(t, IF md = 0 THEN tree_depth ELSE md, << >>, 0, tree_center)

\* The path of octants from the root to the finest cell of the keys k,
\* cut after d levels.
PathTo(k, d) == [l \in 1 .. d |-> genPos(k, tree_depth - l)]

\* The finest cells the sampled trees are grown towards.
SampleCells ==
  { [j \in Axes |-> tree_max_val],
    [j \in Axes |-> IF j = 0 THEN tree_max_val + 1 ELSE tree_max_val],
    [j \in Axes |-> 1],
    [j \in Axes |-> IF j = 0 THEN 0
                    ELSE IF j = 1 THEN tree_max_val ELSE 2 * tree_max_val - 1] }

\* How deep a sampled tree is expanded towards a cell (0: not at all).
SampleDepths == {0, 1, tree_depth - 1, tree_depth}

\* The sampled trees: the root, expanded towards each sampled cell to one of
\* the sampled depths.  No node is deeper than tree_depth.
Trees ==
  { UNION { { PathTo(k, d) : d \in 0 .. grow[k] } : k \in SampleCells } :
      grow \in [SampleCells -> SampleDepths] }

\* The coordinates of the points searched: the centres of the cells 0, 1,
\* tree_max_val and tree_max_val + 1, and the first value above the volume.
SearchCoords ==
  { (k - tree_max_val) * Q + HalfCell : k \in {0, 1, tree_max_val, tree_max_val + 1} }
    \cup { tree_max_val * Q }

InitTree ==
  /\ CodecOff
  /\ RayOff
  /\ resolution \in Resolutions
  /\ tree \in Trees
  /\ tpc = "start"
  /\ value = None /\ found = None /\ max_depth = None
  /\ voxels = << >> /\ nodes = << >>

\* a call search(value)
Search ==
  /\ tpc = "start"
  /\ \E p \in [Axes -> SearchCoords] :
       /\ value' = p
       /\ found' = search(tree, p)
  /\ tpc' = "searched"
  /\ UNCHANGED <<tree, max_depth, voxels, nodes>>
  /\ UNCHANGED <<resolution>>
  /\ UNCHANGED codecVars
  /\ UNCHANGED rayVars

\* a call getVoxels(voxels, max_depth)
GetVoxels ==
  /\ tpc = "start"
  /\ \E md \in 0 .. (tree_depth + 1) :
       /\ max_depth' = md
       /\ voxels' = getVoxels(tree, md)
  /\ tpc' = "voxels"
  /\ UNCHANGED <<tree, value, found, nodes>>
  /\ UNCHANGED <<resolution>>
  /\ UNCHANGED codecVars
  /\ UNCHANGED rayVars

\* a call getLeafNodes(nodes, max_depth)
GetLeafNodes ==
  /\ tpc = "start"
  /\ \E md \in 0 .. (tree_depth + 1) :
       /\ max_depth' = md
       /\ nodes' = getLeafNodes(tree, md)
  /\ tpc' = "leaves"
  /\ UNCHANGED <<tree, value, found, voxels>>
  /\ UNCHANGED <<resolution>>
  /\ UNCHANGED codecVars
  /\ UNCHANGED rayVars

NextTree == Search \/ GetVoxels \/ GetLeafNodes

SpecTree == InitTree /\ [][NextTree]_vars

----------------------------------------------------------------------------
(* C1: for every key k with 0 < k < 2*tree_max_val, genVal succeeds on k   *)
(* and genKey of the decoded value succeeds and returns exactly k.         *)
C1_RoundTrip ==
  /\ (cpc = "decoded" /\ 0 < key /\ key < 2 * tree_max_val) => okVal = TRUE
  /\ (cpc = "roundtrip" /\ 0 < key /\ key < 2 * tree_max_val)
        => (okKey = TRUE /\ keyOut = key)

C1_Witness ==
  cpc = "roundtrip" /\ key = 2 * tree_max_val - 1 /\ keyOut = key

(* C2: genKey succeeds iff scaled = floor(value * resolution_factor) +     *)
(* tree_max_val satisfies 0 < scaled < 2*tree_max_val, and then returns    *)
(* scaled; value 0.5 at resolution 1 (HalfCell units) encodes to 32768.    *)
(* scaled is stated by the defining property of floor:                     *)
(* s - tree_max_val <= value / Q < s - tree_max_val + 1.                   *)
C2_EncodeRange ==
  cpc = "encoded" =>
    LET IsScaled(s) == /\ (s - tree_max_val) * Q <= val
                       /\ val < (s - tree_max_val + 1) * Q
    IN  /\ okKey = TRUE <=> \E s \in 1 .. (2 * tree_max_val - 1) : IsScaled(s)
        /\ okKey = TRUE => IsScaled(keyOut)
        /\ val = HalfCell => (okKey = TRUE /\ keyOut = tree_max_val)
        /\ val < (1 - tree_max_val) * Q => okKey = FALSE
        /\ val >= tree_max_val * Q => okKey = FALSE

C2_Witness ==
  /\ cpc = "encoded" /\ val = HalfCell /\ keyOut = tree_max_val

C2_WitnessFail ==
  /\ cpc = "encoded" /\ val = (0 - tree_max_val) * Q /\ okKey = FALSE

----------------------------------------------------------------------------
\* |ray[k] - origin|^2 of the k-th point returned
Dist2(k) == MaxLength2(origin, ray[k])

(* C3: whenever advancing the selected axis's voxel index by its step      *)
(* takes the index outside [0, 2*tree_max_val), the whole computeRay call  *)
(* returns failure and delivers no points.                                 *)
C3_LeavingKeySpaceFails ==
  (selAxis # NoAxis /\ (advanced < 0 \/ advanced >= 2 * tree_max_val))
     => (pc = "done" /\ ret = FALSE /\ ray = << >>)

(* C4 as stated: the axis an iteration advances has the smallest tMax and, *)
(* among axes tied for the smallest tMax, is the lowest-numbered one.      *)
C4_LowestTiedAxis ==
  selAxis # NoAxis =>
    LET L2 == MaxLength2(origin, end)
    IN  /\ \A j \in Axes : ~TLess(tMaxAt[j], tMaxAt[selAxis], L2)
        /\ \A j \in Axes : j < selAxis => TLess(tMaxAt[selAxis], tMaxAt[j], L2)

(* C4 as amended: the axis an iteration advances has the smallest tMax     *)
(* and, among axes tied for the smallest tMax, is the highest-numbered one *)
(* (priority 2, then 1, then 0).                                           *)
C4_HighestTiedAxis ==
  selAxis # NoAxis =>
    LET L2 == MaxLength2(origin, end)
    IN  /\ \A j \in Axes : ~TLess(tMaxAt[j], tMaxAt[selAxis], L2)
        /\ \A j \in Axes : j > selAxis => TLess(tMaxAt[selAxis], tMaxAt[j], L2)

\* an iteration found axes 0 and 1 tied for the smallest tMax (direction
\* (1,1,0) from a grid-aligned origin) and advanced axis 1
C4_Witness ==
  /\ selAxis = 1
  /\ origin = [j \in Axes |-> 0]
  /\ end = [j \in Axes |-> IF j = 2 THEN 0 ELSE 2 * Q]
  /\ tMaxAt[0] = tMaxAt[1]
  /\ Len(ray) = 1

(* C5: on a successful computeRay with origin # end the distances from     *)
(* origin of the returned points are strictly increasing in sequence order *)
(* and every returned point is at distance <= maxLength.                   *)
C5_RayMonotone ==
  (pc = "done" /\ ret = TRUE /\ origin # end) =>
    /\ \A k \in 1 .. Len(ray) : Dist2(k) <= MaxLength2(origin, end)
    /\ \A k \in 1 .. (Len(ray) - 1) : Dist2(k) < Dist2(k + 1)

(* C8: an axis whose direction component is exactly zero (step 0) is never *)
(* the axis selected for advancement in any loop iteration.                *)
C8_ZeroAxisNeverSelected ==
  selAxis # NoAxis => step[selAxis] # 0

(* C9: every point a successful computeRay returns encodes (genKey         *)
(* succeeds on each axis) to the voxel index the walk held when the point  *)
(* was appended.                                                           *)
C9_RayPointsEncode ==
  (pc = "done" /\ ret = TRUE) =>
    \A k \in 1 .. Len(ray) : \A j \in Axes :
       /\ genKey(ray[k][j]).ok
       /\ genKey(ray[k][j]).key = rayIdx[k][j]


----------------------------------------------------------------------------
\* the octant the claim names: bits `level` of the three keys
OctantOfBits(k, level) ==
  LET b(j) == IF (k[j] % (2 ^ (level + 1))) >= 2 ^ level THEN 1 ELSE 0
  IN  b(0) + 2 * b(1) + 4 * b(2)

\* what C6 says search returns for the point p on the tree t
C6_Expected(t, p) ==
  IF \E j \in Axes : ~genKey(p[j]).ok THEN NULL
  ELSE LET k == [j \in Axes |-> genKey(p[j]).key]
           path == [l \in 1 .. tree_depth |-> OctantOfBits(k, tree_depth - l)]
           \* the descents made before a child is missing
           m == CHOOSE l \in 0 .. tree_depth :
                  /\ SubSeq(path, 1, l) \in t
                  /\ (l < tree_depth => SubSeq(path, 1, l + 1) \notin t)
           n == SubSeq(path, 1, m)
       IN  IF m = tree_depth THEN n
           ELSE IF \A o \in Octants : Append(n, o) \notin t THEN n
           ELSE NULL

(* C6: search follows the octant path given by bits tree_depth-1 down to 0 *)
(* of the point's keys and returns the node reached after tree_depth       *)
(* descents, or the first node lacking the required child if it has no     *)
(* children at all, or absent if that node has other children; absent for  *)
(* a point that fails to encode.                                           *)
C6_SearchResult ==
  tpc = "searched" => found = C6_Expected(tree, value)

\* the searched cell's path stops at a node that has other children
C6_Witness ==
  /\ tpc = "searched"
  /\ found = NULL
  /\ \A j \in Axes : genKey(value[j]).ok
  /\ Cardinality(tree) > 1

\* the full path exists: the node at depth tree_depth is returned
C6_WitnessDeep ==
  tpc = "searched" /\ found # NULL /\ Len(found) = tree_depth

\* the path stops at a childless node below the root
C6_WitnessCoarse ==
  tpc = "searched" /\ found # NULL /\ Len(found) = 1

(* C7: every record getVoxels emits is produced at a node with children at *)
(* a depth d < tree_depth and d < maxDepth (0 meaning tree_depth), one     *)
(* record per octant of that node that does not exist, with edge length    *)
(* resolution * 2^(tree_depth - d); nothing is emitted for childless nodes *)
(* or for nodes at depth maxDepth.                                         *)
C7_VoxelsCutoff ==
  tpc = "voxels" =>
    LET md == IF max_depth = 0 THEN tree_depth ELSE max_depth
        Missing(n) == { o \in Octants : Append(n, o) \notin tree }
        Emitted(n) == { x \in DOMAIN voxels : voxels[x].at = n }
    IN  /\ \A x \in DOMAIN voxels :
              LET n == voxels[x].at
              IN  /\ n \in tree
                  /\ Missing(n) # Octants
                  /\ Len(n) < tree_depth
                  /\ Len(n) < md
                  /\ voxels[x].size = Q * 2 ^ (tree_depth - Len(n))
        /\ \A n \in tree :
              Cardinality(Emitted(n)) =
                 IF Missing(n) # Octants /\ Len(n) < md
                 THEN Cardinality(Missing(n)) ELSE 0

\* records were emitted at a node of depth tree_depth - 1, none below it,
\* although the tree has nodes at depth tree_depth
C7_Witness ==
  /\ tpc = "voxels"
  /\ max_depth = 0
  /\ \E n \in tree : Len(n) = tree_depth
  /\ \E x \in DOMAIN voxels : Len(voxels[x].at) = tree_depth - 1

(* C10: for a tree with tree_size > 1 and maxDepth = 0, every volume       *)
(* (center c, edge e) that getLeafNodes emits for a node N has             *)
(* search(c) = N, and search(p) = N for every point p that encodes and     *)
(* lies in the half-open cube [c - e/2, c + e/2) (checked at the cube's    *)
(* lowest corner, centre and highest point on each axis).                  *)
C10_LeafVolumesMatchSearch ==
  (tpc = "leaves" /\ max_depth = 0 /\ Cardinality(tree) > 1) =>
    \A x \in DOMAIN nodes :
       LET c == nodes[x].center
           h == nodes[x].size \div 2
           N == nodes[x].at
       IN  /\ search(tree, c) = N
           /\ \A p \in { [j \in Axes |-> c[j] + d[j]] :
                           d \in [Axes -> {0 - h, 0, h - 1}] } :
                 (\A j \in Axes : genKey(p[j]).ok) => search(tree, p) = N

=============================================================================
